---- MODULE Spec2Model ----
(***************************************************************************)
(* Extraction pipeline of yaci (internal/extractor/live.go): the live      *)
(* tailer, the range extraction with its progress bar, the parallel driver *)
(* (errgroup + buffered-channel semaphore) and the per-block fetch tasks   *)
(* writing to the output handler.                                          *)
(***************************************************************************)
EXTENDS Integers, Naturals, Sequences, FiniteSets, TLC

\* Highest block height the node ever reports.
MaxHeight == 3
\* Largest value of cfg.MaxConcurrency explored (0 is admitted by the flag).
MaxConc == 2

Heights == 1..MaxHeight

VARIABLES
    rootDone,           \* gRPCClient.Ctx is cancelled (process-level shutdown)
    MaxConcurrency,     \* cfg.MaxConcurrency
    EnableBlockResults, \* cfg.EnableBlockResults
    startArg,           \* the tailer's start parameter
    lpc,                \* position of extractLiveBlocksAndTransactions
    currentHeight,      \* the tailer's currentHeight
    lErr,               \* the tailer's return value
    ranges,             \* the ranges the tailer handed to extractBlocksAndTransactions
    epc,                \* position of extractBlocksAndTransactions
    start, stop,        \* its range
    bar,                \* progress bar count (-1: no bar)
    eErr,               \* its return value
    spc,                \* position of processBlocks (the scheduler loop)
    height,             \* its loop variable
    sem,                \* number of elements in the sem channel
    egErr,              \* errgroup: first error recorded by errOnce
    egDone,             \* errgroup: the derived ctx was cancelled by the group
    observed,           \* value of ctx.Err() != nil at the scheduler's last check
    pErr,               \* return value of processBlocks
    tpc,                \* per height: position of the block-fetch task
    terr,               \* per height: the task's error value
    nstart,             \* per height: number of tasks started by eg.Go
    blocks,             \* sink: heights with a block row
    txrows,             \* sink: heights whose transaction rows are stored
    results,            \* sink: heights with a block-results row
    rep,                \* processMissingBlocks: its position and locals
    call                \* a call of a utility function: arguments, position, result

vars == <<rootDone, MaxConcurrency, EnableBlockResults, startArg, lpc,
          currentHeight, lErr, ranges, epc, start, stop, bar, eErr, spc,
          height, sem, egErr, egDone, observed, pErr, tpc, terr, nstart,
          blocks, txrows, results, rep, call>>

cfgVars  == <<MaxConcurrency, EnableBlockResults, startArg>>
tailVars == <<lpc, currentHeight, lErr, ranges>>
extrVars == <<epc, start, stop, eErr>>
schedVars == <<spc, height, observed, pErr>>
sinkVars == <<blocks, txrows, results>>
auxVars == <<rep, call>>

\* Error values: a kind and, for a task error, the height of the task.
\* Wrapping with %w keeps the kind (errors.Is sees through it).
NoErr == [kind |-> "nil", h |-> 0]
Err(k, h) == [kind |-> k, h |-> h]

\* ctx.Err() != nil for the context derived by errgroup.WithContext.
CtxErr == rootDone \/ egDone

\* Outcomes of a call that takes a context: success, a failure of its own,
\* or context.Canceled when that context is cancelled.
Outcomes(cancelled) == {"ok", "Failed"} \cup (IF cancelled THEN {"Canceled"} ELSE {})

\* No call of processMissingBlocks, no call of a utility function.
NoRepair == [pc |-> "idle"]
NoCall == [op |-> "none"]

Init ==
    /\ rootDone = FALSE
    /\ MaxConcurrency \in 0..MaxConc
    /\ EnableBlockResults \in BOOLEAN
    /\ startArg \in Heights
    /\ rep = NoRepair
    /\ call = NoCall
    /\ txrows = {}
    /\ lpc = "select"
    /\ currentHeight = startArg - 1
    /\ lErr = NoErr
    /\ ranges = <<>>
    /\ epc = "idle"
    /\ start = 0
    /\ stop = 0
    /\ bar = -1
    /\ eErr = NoErr
    /\ spc = "idle"
    /\ height = 0
    /\ sem = 0
    /\ egErr = NoErr
    /\ egDone = FALSE
    /\ observed = FALSE
    /\ pErr = NoErr
    /\ tpc = [h \in Heights |-> "none"]
    /\ terr = [h \in Heights |-> "nil"]
    /\ nstart = [h \in Heights |-> 0]
    /\ blocks = {}
    /\ results = {}

\* The process receives its shutdown signal.
RootCancel ==
    /\ ~rootDone
    /\ rootDone' = TRUE
    /\ UNCHANGED <<cfgVars, auxVars, tailVars, extrVars, bar, schedVars, sem, egErr,
                   egDone, tpc, terr, nstart, sinkVars>>

----------------------------------------------------------------------------
\* extractLiveBlocksAndTransactions

\* select { case <-Ctx.Done(): return nil; default: ... }
TailSelect ==
    /\ lpc = "select"
    /\ IF rootDone
         THEN lpc' = "ret" /\ lErr' = NoErr
         ELSE lpc' = "probe" /\ lErr' = lErr
    /\ UNCHANGED <<rootDone, cfgVars, auxVars, currentHeight, ranges, extrVars, bar,
                   schedVars, sem, egErr, egDone, tpc, terr, nstart, sinkVars>>

\* Variant: the tailer forgets to advance currentHeight.
KeepCurrentHeight(cur, latestHeight) == cur

\* currentHeight after a successful extraction up to latestHeight.
NextCurrentHeight(cur, latestHeight) == latestHeight

\* Variant: the tailer sleeps and polls again after a failed extraction.
TailRetryOnError(err) == "sleep"

\* What the tailer does with the error of extractBlocksAndTransactions.
TailOnError(err) == "ret"

\* GetLatestBlockHeightWithRetry and the comparison with currentHeight.
TailProbe ==
    /\ lpc = "probe"
    /\ \/ \E k \in Outcomes(rootDone) \ {"ok"} :
            /\ lpc' = "ret"
            /\ lErr' = Err(k, 0)
            /\ UNCHANGED <<ranges, extrVars, spc>>
       \/ \E latestHeight \in 0..MaxHeight :
            IF latestHeight > currentHeight
              THEN /\ lpc' = "drive"
                   /\ epc' = "begin"
                   /\ start' = currentHeight + 1
                   /\ stop' = latestHeight
                   /\ eErr' = NoErr
                   /\ spc' = "idle"
                   /\ ranges' = Append(ranges, <<currentHeight + 1, latestHeight>>)
                   /\ lErr' = lErr
              ELSE /\ lpc' = "sleep"
                   /\ UNCHANGED <<lErr, ranges, extrVars, spc>>
    /\ UNCHANGED <<rootDone, cfgVars, auxVars, currentHeight, bar, height, observed,
                   pErr, sem, egErr, egDone, tpc, terr, nstart, sinkVars>>

\* extractBlocksAndTransactions has returned to the tailer.
TailDriveReturn ==
    /\ lpc = "drive"
    /\ epc = "ret"
    /\ epc' = "idle"
    /\ IF eErr.kind # "nil"
         THEN /\ lpc' = TailOnError(eErr)
              /\ lErr' = IF TailOnError(eErr) = "ret" THEN eErr ELSE lErr
              /\ currentHeight' = currentHeight
         ELSE /\ currentHeight' = NextCurrentHeight(currentHeight, stop)
              /\ lpc' = "sleep"
              /\ lErr' = lErr
    /\ UNCHANGED <<rootDone, cfgVars, auxVars, ranges, start, stop, eErr, bar,
                   schedVars, sem, egErr, egDone, tpc, terr, nstart, sinkVars>>

\* time.Sleep(cfg.BlockTime)
TailSleep ==
    /\ lpc = "sleep"
    /\ lpc' = "select"
    /\ UNCHANGED <<rootDone, cfgVars, auxVars, currentHeight, lErr, ranges, extrVars,
                   bar, schedVars, sem, egErr, egDone, tpc, terr, nstart,
                   sinkVars>>

----------------------------------------------------------------------------
\* extractBlocksAndTransactions

displayProgress == start # stop

\* Progress bar set-up (RenderBlank may fail), then the call of processBlocks:
\* errgroup.WithContext and make(chan struct{}, cfg.MaxConcurrency).
ExtractBegin ==
    /\ epc = "begin"
    /\ \/ /\ displayProgress
          /\ epc' = "ret"
          /\ eErr' = Err("Bar", 0)
          /\ bar' = 0
          /\ UNCHANGED <<schedVars, sem, egErr, egDone>>
       \/ /\ epc' = "process"
          /\ eErr' = eErr
          /\ bar' = IF displayProgress THEN 0 ELSE -1
          /\ spc' = "check"
          /\ height' = start
          /\ sem' = 0
          /\ egErr' = NoErr
          /\ egDone' = FALSE
          /\ observed' = FALSE
          /\ pErr' = NoErr
    /\ UNCHANGED <<rootDone, cfgVars, auxVars, tailVars, start, stop, tpc, terr,
                   nstart, sinkVars>>

\* processBlocks has returned: wrap its error, or finish the bar.
ExtractEnd ==
    /\ epc = "process"
    /\ spc = "ret"
    /\ epc' = "ret"
    /\ IF pErr.kind # "nil"
         THEN eErr' = pErr
         ELSE \/ eErr' = NoErr
              \/ bar # -1 /\ eErr' = Err("Bar", 0)
    /\ UNCHANGED <<rootDone, cfgVars, auxVars, tailVars, start, stop, bar, schedVars,
                   sem, egErr, egDone, tpc, terr, nstart, sinkVars>>

----------------------------------------------------------------------------
\* processBlocks: the scheduler loop

\* Variant: the scheduler ignores the cancellation it sees.
IgnoreCancel(cancelled) == FALSE

\* The scheduler's reaction to ctx.Err() != nil at the top of the loop.
StopOnCancel(cancelled) == cancelled

\* Variant: the send never blocks (an unbounded channel).
SlotAlwaysFree == TRUE

\* A send on the sem channel can proceed: the buffer has room.
SlotFree == sem < MaxConcurrency

\* Top of the for loop: the loop condition and the ctx.Err() check.
SchedCheck ==
    /\ spc = "check"
    /\ IF height > stop
         THEN /\ spc' = "wait"
              /\ UNCHANGED <<observed, pErr>>
         ELSE /\ observed' = CtxErr
              /\ IF StopOnCancel(CtxErr)
                   THEN spc' = "ret" /\ pErr' = Err("Canceled", 0)
                   ELSE spc' = "acquire" /\ pErr' = pErr
    /\ UNCHANGED <<rootDone, cfgVars, auxVars, tailVars, extrVars, bar, height, sem,
                   egErr, egDone, tpc, terr, nstart, sinkVars>>

\* sem <- struct{}{} finds the channel full: the scheduler parks on the send.
SchedPark ==
    /\ spc = "acquire"
    /\ ~SlotFree
    /\ spc' = "blocked"
    /\ UNCHANGED <<rootDone, cfgVars, auxVars, tailVars, extrVars, bar, height,
                   observed, pErr, sem, egErr, egDone, tpc, terr, nstart,
                   sinkVars>>

\* The send on sem completes and eg.Go starts the task of this height.
SchedGo ==
    /\ spc \in {"acquire", "blocked"}
    /\ SlotFree
    /\ sem' = sem + 1
    /\ tpc' = [tpc EXCEPT ![height] = "block"]
    /\ terr' = [terr EXCEPT ![height] = "nil"]
    /\ nstart' = [nstart EXCEPT ![height] = @ + 1]
    /\ height' = height + 1
    /\ spc' = "check"
    /\ UNCHANGED <<rootDone, cfgVars, auxVars, tailVars, extrVars, bar, observed,
                   pErr, egErr, egDone, sinkVars>>

\* Every goroutine of the group has called done().
GroupIdle == \A h \in Heights : tpc[h] \in {"none", "done"}

\* eg.Wait(): wait for the goroutines, cancel the ctx, return the first error.
SchedWait ==
    /\ spc = "wait"
    /\ GroupIdle
    /\ egDone' = TRUE
    /\ pErr' = egErr
    /\ spc' = "ret"
    /\ UNCHANGED <<rootDone, cfgVars, auxVars, tailVars, extrVars, bar, height,
                   observed, sem, egErr, tpc, terr, nstart, sinkVars>>

----------------------------------------------------------------------------
\* The block-fetch task of one height

\* A task leaves its fetch with error value e.
TaskExit(h, e) ==
    /\ tpc' = [tpc EXCEPT ![h] = "exit"]
    /\ terr' = [terr EXCEPT ![h] = e]

\* processSingleBlockWithRetry: utils.GetGRPCResponse for the block.
TaskBlock(h) ==
    /\ tpc[h] = "block"
    /\ \E r \in Outcomes(CtxErr) :
         IF r = "ok"
           THEN tpc' = [tpc EXCEPT ![h] = "txs"] /\ terr' = terr
           ELSE TaskExit(h, r)
    /\ UNCHANGED <<rootDone, cfgVars, auxVars, tailVars, extrVars, bar, schedVars,
                   sem, egErr, egDone, nstart, sinkVars>>

\* processSingleBlockWithRetry: json.Unmarshal and extractTransactions.
TaskTxs(h) ==
    /\ tpc[h] = "txs"
    /\ \E r \in Outcomes(CtxErr) :
         IF r = "ok"
           THEN tpc' = [tpc EXCEPT ![h] = "write"] /\ terr' = terr
           ELSE TaskExit(h, r)
    /\ UNCHANGED <<rootDone, cfgVars, auxVars, tailVars, extrVars, bar, schedVars,
                   sem, egErr, egDone, nstart, sinkVars>>

\* Variant: the block is handed to the sink without its transactions.
WriteArgsNoTxs(h) == [block |-> h, txs |-> "none"]

\* processSingleBlockWithRetry: what is handed to the one call of
\* WriteBlockWithTransactions, the block and all transactions extracted.
WriteArgs(h) == [block |-> h, txs |-> "all"]

\* The sink's WriteBlockWithTransactions: one atomic write of the block row
\* and the transaction rows it was handed.
SinkWriteBlockWithTransactions(a) ==
    /\ blocks' = blocks \cup {a.block}
    /\ txrows' = IF a.txs = "all" THEN txrows \cup {a.block} ELSE txrows

\* Variant: the block results are fetched whatever the block fetch returned.
IgnoresBlockError(e) == FALSE

\* processSingleBlockWithResultsAndRetry: an error of
\* processSingleBlockWithRetry is returned at once.
ReturnsOnBlockError(e) == e # "nil"

\* processSingleBlockWithRetry: outputHandler.WriteBlockWithTransactions,
\* then the choice between the two fetch functions.
TaskWrite(h) ==
    /\ tpc[h] = "write"
    /\ \E r \in Outcomes(CtxErr) :
         IF r = "ok"
           THEN /\ SinkWriteBlockWithTransactions(WriteArgs(h))
                /\ IF EnableBlockResults
                     THEN tpc' = [tpc EXCEPT ![h] = "results"] /\ terr' = terr
                     ELSE TaskExit(h, "nil")
           ELSE /\ UNCHANGED <<blocks, txrows>>
                /\ IF EnableBlockResults /\ ~ReturnsOnBlockError(r)
                     THEN tpc' = [tpc EXCEPT ![h] = "results"] /\ terr' = terr
                     ELSE TaskExit(h, r)
    /\ UNCHANGED <<rootDone, cfgVars, auxVars, tailVars, extrVars, bar, schedVars,
                   sem, egErr, egDone, nstart, results>>

\* Variant: a failed fetchBlockResults fails the block.
ResultsFetchPropagate(e) == e

\* processSingleBlockWithResultsAndRetry: the value returned when
\* fetchBlockResults failed with error e.
ResultsFetchFailure(e) == "nil"

\* processSingleBlockWithResultsAndRetry: fetchBlockResults.
TaskResults(h) ==
    /\ tpc[h] = "results"
    /\ \E r \in Outcomes(CtxErr) :
         IF r = "ok"
           THEN tpc' = [tpc EXCEPT ![h] = "writeResults"] /\ terr' = terr
           ELSE TaskExit(h, ResultsFetchFailure(r))
    /\ UNCHANGED <<rootDone, cfgVars, auxVars, tailVars, extrVars, bar, schedVars,
                   sem, egErr, egDone, nstart, sinkVars>>

\* processSingleBlockWithResultsAndRetry: outputHandler.WriteBlockResults.
TaskWriteResults(h) ==
    /\ tpc[h] = "writeResults"
    /\ \E r \in Outcomes(CtxErr) :
         IF r = "ok"
           THEN results' = results \cup {h} /\ TaskExit(h, "nil")
           ELSE results' = results /\ TaskExit(h, r)
    /\ UNCHANGED <<rootDone, cfgVars, auxVars, tailVars, extrVars, bar, schedVars,
                   sem, egErr, egDone, nstart, blocks, txrows>>

\* Variant: the closure treats a cancelled fetch as done.
ClosureSwallowCanceled(e) == IF e = "Canceled" THEN "nil" ELSE e

\* The closure's error handling: both branches return the error
\* (as it is, or wrapped with the height).
ClosureResult(e) == e

\* The closure returns: error handling, progress bar, deferred <-sem.
TaskReturn(h) ==
    /\ tpc[h] = "exit"
    /\ tpc' = [tpc EXCEPT ![h] = "returned"]
    /\ terr' = [terr EXCEPT ![h] = ClosureResult(terr[h])]
    /\ bar' = IF terr[h] = "nil" /\ bar # -1 THEN bar + 1 ELSE bar
    /\ sem' = sem - 1
    /\ UNCHANGED <<rootDone, cfgVars, auxVars, tailVars, extrVars, schedVars, egErr,
                   egDone, nstart, sinkVars>>

\* errgroup's goroutine wrapper: errOnce records the first error and
\* cancels the ctx, then done().
EgRecord(h) ==
    /\ tpc[h] = "returned"
    /\ tpc' = [tpc EXCEPT ![h] = "done"]
    /\ IF terr[h] # "nil" /\ egErr = NoErr
         THEN egErr' = Err(terr[h], h) /\ egDone' = TRUE
         ELSE UNCHANGED <<egErr, egDone>>
    /\ UNCHANGED <<rootDone, cfgVars, auxVars, tailVars, extrVars, bar, schedVars,
                   sem, terr, nstart, sinkVars>>

----------------------------------------------------------------------------
Next ==
    \/ RootCancel
    \/ TailSelect
    \/ TailProbe
    \/ TailDriveReturn
    \/ TailSleep
    \/ ExtractBegin
    \/ ExtractEnd
    \/ SchedCheck
    \/ SchedPark
    \/ SchedGo
    \/ SchedWait
    \/ \E h \in Heights : TaskBlock(h)
    \/ \E h \in Heights : TaskTxs(h)
    \/ \E h \in Heights : TaskWrite(h)
    \/ \E h \in Heights : TaskResults(h)
    \/ \E h \in Heights : TaskWriteResults(h)
    \/ \E h \in Heights : TaskReturn(h)
    \/ \E h \in Heights : EgRecord(h)

Spec == Init /\ [][Next]_vars

----------------------------------------------------------------------------
\* Properties of the parallel driver

\* Tasks that eg.Go started and whose closure has not returned yet.
InFlight == {h \in Heights : tpc[h] \in {"block", "txs", "write", "results",
                                         "writeResults", "exit"}}

\* processBlocks has returned to extractBlocksAndTransactions.
DriverReturned == spc = "ret"

\* C1: whenever processBlocks returns nil, every height of [start, stop] was
\* fetched by one task that ran to its end and its block and transactions
\* are in the sink.
C1_SuccessMeansAllWritten ==
    (DriverReturned /\ pErr = NoErr) =>
        \A h \in start..stop :
            h \in blocks /\ tpc[h] = "done" /\ terr[h] = "nil"

\* C1 witness: a successful drive of a range of several heights that raced
\* with the shutdown signal.
C1_Witness ==
    /\ DriverReturned /\ pErr = NoErr
    /\ start < stop
    /\ rootDone

\* C2: eg.Go has started exactly one task for each height the loop has
\* passed and none for any other, all of them once the drive succeeded, and
\* at most cfg.MaxConcurrency closures are running.
C2_OneTaskPerHeightBounded ==
    /\ \A h \in Heights :
         nstart[h] = IF startArg <= h /\ h < height
                       THEN 1 ELSE 0
    /\ (DriverReturned /\ pErr = NoErr) => height = stop + 1
    /\ Cardinality(InFlight) <= MaxConcurrency

\* C2 witness: every slot is taken and the scheduler waits for one.
C2_Witness ==
    /\ spc = "blocked"
    /\ MaxConcurrency >= 2
    /\ Cardinality(InFlight) = MaxConcurrency

\* C5: once the scheduler's check has seen the ctx cancelled, eg.Go starts
\* no further task.
C5_NoStartAfterObservedCancel ==
    [][observed => nstart' = nstart]_vars

\* C5 witness: the scheduler saw the cancellation with heights of the range
\* left unscheduled and has returned.
C5_Witness ==
    /\ observed
    /\ DriverReturned
    /\ height <= stop
    /\ \E h \in height..stop : nstart[h] = 0

\* C8: when fetchBlockResults fails after the block was written, the fetch
\* ends with a nil error, the block is in the sink and no results row of
\* that height is; a results row is only ever added by WriteBlockResults.
C8_ResultsFailureSwallowed ==
    [][\A h \in Heights :
          /\ (tpc[h] = "results" /\ tpc'[h] # "results" /\ tpc'[h] # "writeResults")
                => /\ tpc'[h] = "exit"
                   /\ terr'[h] = "nil"
                   /\ h \in blocks'
                   /\ h \notin results'
          /\ (h \in results' /\ h \notin results) => tpc[h] = "writeResults"
          /\ (h \in blocks) => (h \in blocks')]_vars

\* C8 witness: a task with block results enabled finished with a nil error,
\* its block stored and no results row.
C8_Witness ==
    \E h \in Heights :
        /\ EnableBlockResults
        /\ tpc[h] = "done"
        /\ terr[h] = "nil"
        /\ h \in blocks
        /\ h \notin results

\* C3: when the group has recorded a task error other than Canceled, the
\* error processBlocks returns is that task's error.
C3_FirstTaskErrorSurfaced ==
    [][(spc # "ret" /\ spc' = "ret" /\ egErr.kind = "Failed")
          => pErr' = egErr]_vars

\* C4: when the shutdown signal is the only failure of a drive (no task
\* failed for another reason), neither extractBlocksAndTransactions nor the
\* tailer returns an error.
C4_CancelIsCleanShutdown ==
    (/\ rootDone
     /\ pErr.kind = "Canceled"
     /\ \A h \in Heights : terr[h] # "Failed")
        => /\ epc = "ret" => eErr = NoErr
           /\ lpc = "ret" => lErr = NoErr

\* C6: while the scheduler is parked on the send to sem, a cancelled ctx
\* keeps eg.Go from starting the task of the waiting height, and no slot is
\* held once the driver has returned and every task has finished.
C6_SemWaitAbortsOnCancel ==
    [][/\ (spc = "blocked" /\ CtxErr) => nstart'[height] = nstart[height]
       /\ (DriverReturned' /\ GroupIdle') => sem' = 0]_vars

\* C7: when processBlocks returns a cancellation error, no task it started
\* is still running (so none can write to the sink afterwards).
C7_CancelledDriverWaitsForTasks ==
    (DriverReturned /\ pErr.kind = "Canceled") => InFlight = {}

----------------------------------------------------------------------------
\* Properties of the live tailer

LastRange == ranges[Len(ranges)]

\* C9: the ranges handed to the driver start at the start height, follow
\* each other without gap or overlap, currentHeight is the end of the last
\* range exactly when that extraction has returned nil (and the height
\* before its start otherwise), and no height gets a second task.
C9_ContiguousRanges ==
    /\ \A i \in 1..Len(ranges) :
         /\ ranges[i][1] <= ranges[i][2]
         /\ ranges[i][1] = IF i = 1 THEN startArg ELSE ranges[i-1][2] + 1
    /\ currentHeight =
         IF ranges = <<>> THEN startArg - 1
         ELSE IF lpc # "drive" /\ eErr = NoErr THEN LastRange[2]
         ELSE LastRange[1] - 1
    /\ \A h \in Heights : nstart[h] <= 1

\* C9 witness: two extractions in a row succeeded.
C9_Witness ==
    /\ Len(ranges) >= 2
    /\ currentHeight = ranges[2][2]

\* C10: when extractBlocksAndTransactions has returned an error, the
\* tailer's next step is to return that error with currentHeight as it was;
\* once returned, the tailer does nothing more.
C10_TailerReturnsFailure ==
    [][/\ (lpc = "drive" /\ epc = "ret" /\ eErr.kind # "nil")
            => /\ lpc' \in {"drive", "ret"}
               /\ lpc' = "ret" => lErr' = eErr
               /\ currentHeight' = currentHeight
               /\ ranges' = ranges
       /\ lpc = "ret"
            => /\ lpc' = "ret"
               /\ lErr' = lErr
               /\ currentHeight' = currentHeight
               /\ ranges' = ranges
               /\ epc' = epc]_vars

\* C10 witness: the tailer returned the error of a task of its second range.
C10_Witness ==
    /\ lpc = "ret"
    /\ lErr.kind = "Failed"
    /\ Len(ranges) = 2
    /\ lErr.h \in ranges[2][1]..ranges[2][2]
    /\ currentHeight = ranges[1][2]

\* C11: when the tailer returns after the shutdown signal and not because
\* of a failure of another kind, it returns nil.
C11_CancelledTailerReturnsNil ==
    [][(/\ rootDone
        /\ lpc # "ret" /\ lpc' = "ret"
        /\ lErr'.kind \notin {"Failed", "Bar"})
          => lErr' = NoErr]_vars

\* C20: a tailer that sleeps when the shutdown signal has arrived returns
\* from the sleep itself: its next step is not the end of the poll interval.
C20_SleepIsCancellable ==
    [][(lpc = "sleep" /\ rootDone) => lpc' \in {"sleep", "ret"}]_vars

----------------------------------------------------------------------------
\* Properties of the block fetch

\* C15: (for cfg.MaxRetries >= 1) a failure of WriteBlockWithTransactions
\* that is not a cancellation does not end the fetch with that error at its
\* first attempt: the write is tried again.
C15_FailedWriteIsRetried ==
    [][\A h \in Heights :
          (tpc[h] = "write" /\ tpc'[h] = "exit") => terr'[h] # "Failed"]_vars

\* C17: in every state, also with the ctx cancelled at any point of a
\* drive, a height has its block row exactly when it has its transaction
\* rows.
C17_BlockWriteAtomic == blocks = txrows

\* C17 witness: the shutdown signal arrived during a drive of several
\* heights, one task was cancelled, another one's write was committed.
C17_Witness ==
    /\ rootDone
    /\ start < stop
    /\ \E h \in start..stop : tpc[h] = "done" /\ terr[h] = "Canceled"
    /\ \E h \in start..stop : h \in blocks /\ h \in txrows

----------------------------------------------------------------------------
\* processMissingBlocks (the gap repair), run on its own before the tailer

\* Highest height the sink may hold when the repair starts.
MaxRepairHeight == 5

RepairHeights == 1..MaxRepairHeight

\* The state of the tailer, the extraction and the scheduler that the
\* repair and the utility functions leave alone.
idleVars == <<cfgVars, tailVars, extrVars, bar, schedVars, sem, egErr,
              egDone, nstart>>

\* Nothing of the tailer, the extraction or the scheduler has started.
MainIdle ==
    /\ rootDone = FALSE
    /\ MaxConcurrency = 1
    /\ startArg = 1
    /\ lpc = "idle"
    /\ currentHeight = 0
    /\ lErr = NoErr
    /\ ranges = <<>>
    /\ epc = "idle"
    /\ start = 0
    /\ stop = 0
    /\ bar = -1
    /\ eErr = NoErr
    /\ spc = "idle"
    /\ height = 0
    /\ sem = 0
    /\ egErr = NoErr
    /\ egDone = FALSE
    /\ observed = FALSE
    /\ pErr = NoErr

Min(S) == CHOOSE x \in S : \A y \in S : x <= y
Max(S) == CHOOSE x \in S : \A y \in S : x >= y

RECURSIVE Ascending(_)
Ascending(S) == IF S = {} THEN <<>> ELSE <<Min(S)>> \o Ascending(S \ {Min(S)})

\* The sink's GetMissingBlockIds: the heights absent between the earliest
\* and the latest stored block, in ascending order.
GetMissingBlockIds(stored) ==
    IF stored = {} THEN <<>>
    ELSE Ascending({h \in Min(stored)..Max(stored) : h \notin stored})

InitRepair ==
    /\ MainIdle
    /\ EnableBlockResults \in BOOLEAN
    /\ blocks \in SUBSET RepairHeights
    /\ txrows = blocks
    /\ results = {}
    /\ tpc = [h \in RepairHeights |-> "none"]
    /\ terr = [h \in RepairHeights |-> "nil"]
    /\ nstart = [h \in RepairHeights |-> 0]
    /\ rep = [pc |-> "query", ids |-> <<>>, i |-> 0, err |-> NoErr,
              fetched |-> <<>>]
    /\ call = NoCall

\* outputHandler.GetMissingBlockIds(gRPCClient.Ctx)
RepairQuery ==
    /\ rep.pc = "query"
    /\ \E r \in Outcomes(rootDone) :
         IF r = "ok"
           THEN rep' = [rep EXCEPT !.pc = "loop",
                                   !.ids = GetMissingBlockIds(blocks),
                                   !.i = 1]
           ELSE rep' = [rep EXCEPT !.pc = "ret", !.err = Err(r, 0)]
    /\ UNCHANGED <<rootDone, idleVars, call, tpc, terr, sinkVars>>

\* Variant: every iteration fetches the first missing height.
RepairTargetFirst(ids, i) == ids[1]

\* The blockID of iteration i of the range loop.
RepairTarget(ids, i) == ids[i]

\* Variant: the loop goes on after a failed fetch.
RepairContinueOnError(e) == "loop"

\* What processMissingBlocks does when the fetch returned error e.
RepairOnError(e) == "ret"

\* for _, blockID := range missingBlockIds: the call of the fetch function
\* of this iteration, or the return of nil after the last one.
RepairLoop ==
    /\ rep.pc = "loop"
    /\ IF rep.i > Len(rep.ids)
         THEN /\ rep' = [rep EXCEPT !.pc = "ret", !.err = NoErr]
              /\ UNCHANGED <<tpc, terr>>
         ELSE LET blockID == RepairTarget(rep.ids, rep.i) IN
              /\ rep' = [rep EXCEPT !.pc = "fetch",
                                    !.fetched = Append(@, blockID)]
              /\ tpc' = [tpc EXCEPT ![blockID] = "block"]
              /\ terr' = [terr EXCEPT ![blockID] = "nil"]
    /\ UNCHANGED <<rootDone, idleVars, call, sinkVars>>

\* The fetch function has returned processErr.
RepairFetchReturn ==
    /\ rep.pc = "fetch"
    /\ LET blockID == RepairTarget(rep.ids, rep.i) IN
         /\ tpc[blockID] = "exit"
         /\ tpc' = [tpc EXCEPT ![blockID] = "done"]
         /\ IF terr[blockID] # "nil" /\ RepairOnError(terr[blockID]) = "ret"
              THEN rep' = [rep EXCEPT !.pc = "ret",
                                      !.err = Err(terr[blockID], blockID)]
              ELSE rep' = [rep EXCEPT !.pc = "loop", !.i = @ + 1]
    /\ UNCHANGED <<rootDone, idleVars, call, terr, sinkVars>>

NextRepair ==
    \/ RootCancel
    \/ RepairQuery
    \/ RepairLoop
    \/ RepairFetchReturn
    \/ \E h \in RepairHeights : TaskBlock(h)
    \/ \E h \in RepairHeights : TaskTxs(h)
    \/ \E h \in RepairHeights : TaskWrite(h)
    \/ \E h \in RepairHeights : TaskResults(h)
    \/ \E h \in RepairHeights : TaskWriteResults(h)

SpecRepair == InitRepair /\ [][NextRepair]_vars

SeqRange(q) == {q[j] : j \in 1..Len(q)}

\* Heights whose fetch function is running.
Fetching == {h \in RepairHeights : tpc[h] \in {"block", "txs", "write",
                                                "results", "writeResults",
                                                "exit"}}

\* C12: the repair fetches only heights the sink reported as missing, each
\* at most once; when it returns nil every reported height was fetched and
\* written and the sink reports no missing height any more.
C12_RepairFetchesExactlyMissing ==
    /\ SeqRange(rep.fetched) \subseteq SeqRange(rep.ids)
    /\ \A h \in RepairHeights : h \notin SeqRange(rep.fetched) => tpc[h] = "none"
    /\ \A j, k \in 1..Len(rep.fetched) : rep.fetched[j] = rep.fetched[k] => j = k
    /\ (rep.pc = "ret" /\ rep.err = NoErr) =>
          /\ SeqRange(rep.fetched) = SeqRange(rep.ids)
          /\ SeqRange(rep.ids) \subseteq (blocks \cap txrows)
          /\ GetMissingBlockIds(blocks) = <<>>

\* C12 witness: the sink held {1, 2, 4, 5}; the repair returned nil after
\* one fetch, of height 3.
C12_Witness ==
    /\ rep.pc = "ret" /\ rep.err = NoErr
    /\ rep.ids = <<3>>
    /\ rep.fetched = <<3>>
    /\ blocks = {1, 2, 3, 4, 5}

\* C13: the fetches follow the order of the reported heights, at most one
\* is running, each one but the last has ended with nil and its block
\* written, and an error returned for a height is the error of the last
\* fetch started.
C13_RepairSequentialFailFast ==
    /\ Len(rep.fetched) <= Len(rep.ids)
    /\ rep.fetched = SubSeq(rep.ids, 1, Len(rep.fetched))
    /\ Cardinality(Fetching) <= 1
    /\ \A j \in 1..(Len(rep.fetched) - 1) :
          /\ tpc[rep.fetched[j]] = "done"
          /\ terr[rep.fetched[j]] = "nil"
          /\ rep.fetched[j] \in blocks
    /\ (rep.pc = "ret" /\ rep.err.h # 0) =>
          /\ rep.err.h = rep.fetched[Len(rep.fetched)]
          /\ rep.err.kind = terr[rep.err.h]
          /\ rep.err.kind # "nil"
          /\ Fetching = {}

\* C13 witness: three heights were missing, the second fetch failed and the
\* third height was never fetched.
C13_Witness ==
    /\ rep.pc = "ret"
    /\ rep.err.kind = "Failed"
    /\ Len(rep.ids) = 3
    /\ rep.fetched = SubSeq(rep.ids, 1, 2)
    /\ tpc[rep.ids[3]] = "none"

----------------------------------------------------------------------------
\* The retry wrapper of utils.GetGRPCResponse, as processSingleBlockWithRetry
\* calls it

\* Largest cfg.MaxRetries explored.
MaxRetriesBound == 2

\* Neither the tailer, nor the driver, nor the repair runs; the sink is empty.
OthersIdle ==
    /\ MainIdle
    /\ EnableBlockResults = FALSE
    /\ blocks = {}
    /\ txrows = {}
    /\ results = {}
    /\ tpc = [h \in Heights |-> "none"]
    /\ terr = [h \in Heights |-> "nil"]
    /\ nstart = [h \in Heights |-> 0]
    /\ rep = NoRepair

othersVars == <<idleVars, tpc, terr, sinkVars, rep>>

\* The error kinds of the pipeline.
ErrorKinds == {"MalformedMethodName", "MalformedParams", "FieldNotFound",
               "NotAMessage", "RPC", "Cancelled", "SinkConflict", "SinkFatal",
               "EarliestHeightUnknown", "Unexpected"}

\* The kinds the retry wrapper does not retry.
TerminalKinds == {"Cancelled", "MalformedParams", "MalformedMethodName",
                  "FieldNotFound", "NotAMessage", "SinkFatal"}

\* Variant: the caller hands one retry more than configured.
RetryBudgetPlusOne(maxRetries) == maxRetries + 1

\* processSingleBlockWithRetry: the retry count handed to GetGRPCResponse.
RetryBudget(maxRetries) == maxRetries

InitRetry ==
    /\ OthersIdle
    /\ \E maxRetries \in 0..MaxRetriesBound :
         call = [op |-> "GetGRPCResponse", maxRetries |-> maxRetries,
                 n |-> RetryBudget(maxRetries), pc |-> "invoke",
                 trace |-> <<>>, res |-> "none"]

\* The wrapper tries again after a failure of kind k with n retries left.
ShouldRetry(k, n) == n > 0 /\ k \notin TerminalKinds

\* One invocation of the operand and the wrapper's decision on its result.
RetryInvoke ==
    /\ call.op = "GetGRPCResponse"
    /\ call.pc = "invoke"
    /\ \E k \in {"ok"} \cup (ErrorKinds \ (IF rootDone THEN {} ELSE {"Cancelled"})) :
         call' = [call EXCEPT
                    !.trace = Append(@, k),
                    !.pc = IF k # "ok" /\ ShouldRetry(k, call.n)
                             THEN "backoff" ELSE "ret",
                    !.res = IF k # "ok" /\ ShouldRetry(k, call.n)
                              THEN @ ELSE k]
    /\ UNCHANGED <<rootDone, othersVars>>

\* The backoff sleep: a cancellation ends the call, else the next attempt.
RetryBackoff ==
    /\ call.op = "GetGRPCResponse"
    /\ call.pc = "backoff"
    /\ IF rootDone
         THEN call' = [call EXCEPT !.pc = "ret", !.res = "Cancelled"]
         ELSE call' = [call EXCEPT !.pc = "invoke", !.n = @ - 1]
    /\ UNCHANGED <<rootDone, othersVars>>

NextRetry ==
    \/ RootCancel
    \/ RetryInvoke
    \/ RetryBackoff

SpecRetry == InitRetry /\ [][NextRetry]_vars

\* C14: the operand is invoked at most maxRetries + 1 times, and only the
\* last invocation may have succeeded or failed with a terminal kind.
C14_RetryBounded ==
    call.op = "GetGRPCResponse" =>
        /\ Len(call.trace) <= call.maxRetries + 1
        /\ \A j \in 1..(Len(call.trace) - 1) :
              call.trace[j] \notin {"ok", "Cancelled", "MalformedParams",
                                    "MalformedMethodName", "FieldNotFound",
                                    "NotAMessage", "SinkFatal"}

\* C14 witness: every one of the maxRetries + 1 invocations failed.
C14_Witness ==
    /\ call.op = "GetGRPCResponse"
    /\ call.maxRetries = 2
    /\ call.pc = "ret"
    /\ Len(call.trace) = 3
    /\ call.res = "RPC"

----------------------------------------------------------------------------
\* GetEarliestBlockHeight and parseLowestHeightFromError

\* Longest error text explored, in tokens.
MaxTextLen == 4

\* An error text is a sequence of tokens: "p" is the text "lowest height is "
\* in lower case, "P" the same words with upper-case letters in them, "x"
\* any other text without a digit, "0" "1" "2" are digits and "N20" is a run
\* of twenty digits 9 (a number above the largest uint64).
Tokens == {"p", "P", "x", "0", "1", "2", "N20"}
Digits == {"0", "1", "2", "N20"}

RECURSIVE SeqsUpTo(_, _)
SeqsUpTo(S, n) ==
    IF n = 0 THEN {<<>>}
    ELSE LET shorter == SeqsUpTo(S, n - 1) IN
         shorter \cup {Append(q, c) : q \in {t \in shorter : Len(t) = n - 1}, c \in S}

Texts == SeqsUpTo(Tokens, MaxTextLen)

\* Variant: the text is searched as it is.
ToLowerIdentity(text) == text

\* strings.ToLower
ToLower(text) == [j \in 1..Len(text) |-> IF text[j] = "P" THEN "p" ELSE text[j]]

\* The end of the run of digits that starts at position j.
RECURSIVE RunEnd(_, _)
RunEnd(text, j) ==
    IF j < Len(text) /\ text[j + 1] \in Digits THEN RunEnd(text, j + 1) ELSE j

\* re.FindStringSubmatch for `lowest height is (\d+)`: the leftmost match
\* with the longest run of digits, as <<match, group 1>>, or <<>>.
FindStringSubmatch(text) ==
    LET starts == {j \in 1..(Len(text) - 1) :
                      text[j] = "p" /\ text[j + 1] \in Digits} IN
    IF starts = {} THEN <<>>
    ELSE LET j == Min(starts) IN
         <<SubSeq(text, j, RunEnd(text, j + 1)),
           SubSeq(text, j + 1, RunEnd(text, j + 1))>>

DigitValue(c) == IF c = "0" THEN 0 ELSE IF c = "1" THEN 1 ELSE 2

RECURSIVE Decimal(_)
Decimal(ds) ==
    IF ds = <<>> THEN 0
    ELSE 10 * Decimal(SubSeq(ds, 1, Len(ds) - 1)) + DigitValue(ds[Len(ds)])

\* strconv.ParseUint(s, 10, 64): a value, or a range error for a number
\* above the largest uint64.
ParseUint(ds) ==
    IF \E j \in 1..Len(ds) : ds[j] = "N20"
      THEN [err |-> "range", val |-> 0]
      ELSE [err |-> "nil", val |-> Decimal(ds)]

parseLowestHeightFromError(errMsg) ==
    LET matches == FindStringSubmatch(ToLower(errMsg)) IN
    IF Len(matches) >= 2 /\ ParseUint(matches[2]).err = "nil"
      THEN ParseUint(matches[2]).val
      ELSE 0

InitEarliest ==
    /\ OthersIdle
    /\ \E maxRetries \in 0..MaxRetriesBound, text \in Texts :
         call = [op |-> "GetEarliestBlockHeight", maxRetries |-> maxRetries,
                 text |-> text, pc |-> "probe1", probes |-> <<>>,
                 r1 |-> "none", r2 |-> "none", height |-> 0, err |-> "nil"]

\* GetGRPCResponse for height 1 with 1 retry; on failure the error text is
\* parsed.
EarliestProbe1 ==
    /\ call.op = "GetEarliestBlockHeight"
    /\ call.pc = "probe1"
    /\ \/ call' = [call EXCEPT !.probes = Append(@, 1), !.r1 = "ok",
                               !.pc = "ret", !.height = 1]
       \/ LET lowestHeight == parseLowestHeightFromError(call.text) IN
          IF lowestHeight > 0
            THEN call' = [call EXCEPT !.probes = Append(@, 1), !.r1 = "fail",
                                      !.pc = "ret", !.height = lowestHeight]
            ELSE call' = [call EXCEPT !.probes = Append(@, 1), !.r1 = "fail",
                                      !.pc = "probe2"]
    /\ UNCHANGED <<rootDone, othersVars>>

\* GetGRPCResponse for height 1 with maxRetries.
EarliestProbe2 ==
    /\ call.op = "GetEarliestBlockHeight"
    /\ call.pc = "probe2"
    /\ \/ call' = [call EXCEPT !.probes = Append(@, call.maxRetries),
                               !.r2 = "ok", !.pc = "ret", !.height = 1]
       \/ call' = [call EXCEPT !.probes = Append(@, call.maxRetries),
                               !.r2 = "fail", !.pc = "ret", !.height = 0,
                               !.err = "EarliestHeightUnknown"]
    /\ UNCHANGED <<rootDone, othersVars>>

NextEarliest ==
    \/ EarliestProbe1
    \/ EarliestProbe2

SpecEarliest == InitEarliest /\ [][NextEarliest]_vars

\* The positions of the text where, in any case of the letters, the words
\* "lowest height is " are followed by a digit.
PatternAt(text) ==
    {j \in 1..(Len(text) - 1) : text[j] \in {"p", "P"} /\ text[j + 1] \in Digits}

\* The digits that follow the first such position.
PatternDigits(text) ==
    LET j == Min(PatternAt(text)) IN
    SubSeq(text, j + 1,
           CHOOSE e \in (j + 1)..Len(text) :
              /\ \A k \in (j + 1)..e : text[k] \in Digits
              /\ (e = Len(text) \/ text[e + 1] \notin Digits))

\* The result of GetEarliestBlockHeight, given whether the error text of
\* the first probe counts as naming a lowest height and which one.
EarliestResult(named, number) ==
    call.pc = "ret" =>
        IF call.r1 = "ok"
          THEN call.height = 1 /\ call.err = "nil" /\ call.probes = <<1>>
        ELSE IF named
          THEN call.height = number /\ call.err = "nil" /\ call.probes = <<1>>
        ELSE /\ call.probes = <<1, call.maxRetries>>
             /\ IF call.r2 = "ok"
                  THEN call.height = 1 /\ call.err = "nil"
                  ELSE call.height = 0 /\ call.err = "EarliestHeightUnknown"

\* C16 as stated: whenever the error text contains 'lowest height is
\* <digits>' in any case, those digits are the result, whatever the number.
C16_EarliestHeightAsStated ==
    call.op = "GetEarliestBlockHeight" =>
        EarliestResult(PatternAt(call.text) # {},
                       IF PatternAt(call.text) # {}
                            /\ \A j \in 1..Len(PatternDigits(call.text)) :
                                  PatternDigits(call.text)[j] # "N20"
                         THEN Decimal(PatternDigits(call.text)) ELSE -1)

\* The first 'lowest height is <digits>' of the text names a number from 1
\* to the largest uint64.
NamesPositiveHeight(text) ==
    /\ PatternAt(text) # {}
    /\ \A j \in 1..Len(PatternDigits(text)) : PatternDigits(text)[j] # "N20"
    /\ Decimal(PatternDigits(text)) > 0

\* C16 amended: the digits of the first 'lowest height is <digits>' (in any
\* case) are the result when they are a number from 1 to the largest
\* uint64; without such text, or with the number 0 or one above the largest
\* uint64, the second probe with the full retry budget decides.
C16_EarliestHeight ==
    call.op = "GetEarliestBlockHeight" =>
        EarliestResult(NamesPositiveHeight(call.text),
                       IF NamesPositiveHeight(call.text)
                         THEN Decimal(PatternDigits(call.text)) ELSE 0)

\* C16 witness: the first probe failed with upper-case 'LOWEST HEIGHT IS 12'
\* inside other text and 12 was returned after that one probe.
C16_Witness ==
    /\ call.op = "GetEarliestBlockHeight"
    /\ call.pc = "ret"
    /\ call.r1 = "fail"
    /\ call.text = <<"x", "P", "1", "2">>
    /\ call.height = 12
    /\ call.probes = <<1>>

----------------------------------------------------------------------------
\* ParseMethodFullName

\* Longest method name explored, in characters.
MaxNameLen == 5

\* A method name is a sequence of characters: two letters and the dot.
NameChars == {"a", "b", "."}

Names == SeqsUpTo(NameChars, MaxNameLen)

\* Variant: the index of the first occurrence.
Index(s, c) ==
    IF \E j \in 1..Len(s) : s[j] = c
      THEN Min({j \in 1..Len(s) : s[j] = c}) - 1
      ELSE -1

\* strings.LastIndex: the 0-based index of the last occurrence, or -1.
LastIndex(s, c) ==
    IF \E j \in 1..Len(s) : s[j] = c
      THEN Max({j \in 1..Len(s) : s[j] = c}) - 1
      ELSE -1

MalformedMethodName(msg) == [kind |-> "MalformedMethodName", msg |-> msg]

ParseMethodFullName(methodFullName) ==
    IF methodFullName = <<>>
      THEN [service |-> <<>>, method |-> <<>>,
            err |-> MalformedMethodName("method full name is empty")]
    ELSE LET lastDot == LastIndex(methodFullName, ".") IN
         IF lastDot = -1
           THEN [service |-> <<>>, method |-> <<>>,
                 err |-> MalformedMethodName("no dot found")]
         ELSE LET service == SubSeq(methodFullName, 1, lastDot)
                  method == SubSeq(methodFullName, lastDot + 2, Len(methodFullName))
              IN IF service = <<>> \/ method = <<>>
                   THEN [service |-> <<>>, method |-> <<>>,
                         err |-> MalformedMethodName("invalid method full name format")]
                   ELSE [service |-> service, method |-> method, err |-> NoErr]

InitParse ==
    /\ OthersIdle
    /\ \E name \in Names :
         call = [op |-> "ParseMethodFullName", name |-> name, pc |-> "call",
                 service |-> <<>>, method |-> <<>>, err |-> NoErr]

ParseReturn ==
    /\ call.op = "ParseMethodFullName"
    /\ call.pc = "call"
    /\ LET r == ParseMethodFullName(call.name) IN
       call' = [call EXCEPT !.pc = "ret", !.service = r.service,
                            !.method = r.method, !.err = r.err]
    /\ UNCHANGED <<rootDone, othersVars>>

NextParse == ParseReturn

SpecParse == InitParse /\ [][NextParse]_vars

\* C18: a name with a non-empty part on both sides of its last dot is
\* returned in two parts, service before and method after that dot (so the
\* method holds no dot and service, dot, method make up the name); the empty
\* name, a name without a dot and a name with an empty side each fail with
\* MalformedMethodName and their own message.
C18_SplitsAtLastDot ==
    (call.op = "ParseMethodFullName" /\ call.pc = "ret") =>
        LET n == call.name
            dots == {j \in 1..Len(n) : n[j] = "."}
        IN IF n = <<>>
             THEN call.err = MalformedMethodName("method full name is empty")
           ELSE IF dots = {}
             THEN call.err = MalformedMethodName("no dot found")
           ELSE IF Max(dots) = 1 \/ Max(dots) = Len(n)
             THEN call.err = MalformedMethodName("invalid method full name format")
           ELSE /\ call.err = NoErr
                /\ call.service \o <<".">> \o call.method = n
                /\ \A j \in 1..Len(call.method) : call.method[j] # "."
                /\ call.service # <<>>
                /\ call.method # <<>>

\* C18 witness: "a.b.a" was parsed into service "a.b" and method "a".
C18_Witness ==
    /\ call.op = "ParseMethodFullName"
    /\ call.pc = "ret"
    /\ call.name = <<"a", ".", "b", ".", "a">>
    /\ call.service = <<"a", ".", "b">>
    /\ call.method = <<"a">>
    /\ call.err = NoErr

----------------------------------------------------------------------------
\* getNestedField

\* Longest field path explored, in tokens.
MaxPathLen == 5

\* A field path is a sequence of tokens: a name, or the dot.
PathTokens == {"height", "sdk_block", "header", "chain_id", "nonexistent", "."}

FieldPaths == SeqsUpTo(PathTokens, MaxPathLen)

Scalar(str) == [kind |-> "scalar", v |-> str]
Message(id) == [kind |-> "message", v |-> id]
Invalid == [kind |-> "invalid", v |-> ""]

\* createTestMessage: the fields of the messages Response, Block and Header.
TestMessage ==
    [Response |-> [height |-> Scalar("12345"), sdk_block |-> Message("Block")],
     Block |-> [header |-> Message("Header")],
     Header |-> [height |-> Scalar("67890"), chain_id |-> Scalar("test-chain")]]

\* strings.Split(s, "."): the pieces between the dots, one more than dots.
RECURSIVE Split(_)
Split(s) ==
    IF \A j \in 1..Len(s) : s[j] # "." THEN <<s>>
    ELSE LET d == Min({j \in 1..Len(s) : s[j] = "."}) IN
         <<SubSeq(s, 1, d - 1)>> \o Split(SubSeq(s, d + 1, Len(s)))

\* Variant: every name is looked up in the top message.
ByNameInRoot(current, fieldName) ==
    IF Len(fieldName) = 1 /\ fieldName[1] \in DOMAIN TestMessage["Response"]
      THEN TestMessage["Response"][fieldName[1]]
      ELSE Invalid

\* current.Descriptor().Fields().ByName(fieldName) and current.Get of it.
ByName(current, fieldName) ==
    IF Len(fieldName) = 1 /\ fieldName[1] \in DOMAIN TestMessage[current]
      THEN TestMessage[current][fieldName[1]]
      ELSE Invalid

FieldNotFound(fieldName) == [kind |-> "FieldNotFound", field |-> fieldName]
NotAMessage(fieldName) == [kind |-> "NotAMessage", field |-> fieldName]
NilErr == [kind |-> "nil", field |-> <<>>]

InitField ==
    /\ OthersIdle
    /\ \E fieldPath \in FieldPaths :
         call = [op |-> "getNestedField", fieldPath |-> fieldPath,
                 fields |-> Split(fieldPath), i |-> 1, current |-> "Response",
                 pc |-> "loop", val |-> Invalid, err |-> NilErr]

\* One round of the loop over the segments of the path.
FieldStep ==
    /\ call.op = "getNestedField"
    /\ call.pc = "loop"
    /\ LET fieldName == call.fields[call.i]
           value == ByName(call.current, fieldName)
       IN IF value = Invalid
            THEN call' = [call EXCEPT !.pc = "ret", !.err = FieldNotFound(fieldName)]
          ELSE IF call.i = Len(call.fields)
            THEN call' = [call EXCEPT !.pc = "ret", !.val = value]
          ELSE IF value.kind # "message"
            THEN call' = [call EXCEPT !.pc = "ret", !.err = NotAMessage(fieldName)]
          ELSE call' = [call EXCEPT !.i = @ + 1, !.current = value.v]
    /\ UNCHANGED <<rootDone, othersVars>>

NextField == FieldStep

SpecField == InitField /\ [][NextField]_vars

\* The k-th segment of a path: what lies between its (k-1)-th and k-th dot.
SegmentOf(path, k) ==
    LET marks == {0, Len(path) + 1} \cup {j \in 1..Len(path) : path[j] = "."}
        mark(n) == CHOOSE d \in marks : Cardinality({e \in marks : e < d}) = n
    IN SubSeq(path, mark(k - 1) + 1, mark(k) - 1)

SegmentCount(path) == Cardinality({j \in 1..Len(path) : path[j] = "."}) + 1

\* What the first k segments of a path lead to from the top message.
RECURSIVE Reached(_, _)
Reached(path, k) ==
    IF k = 0 THEN Message("Response")
    ELSE LET before == Reached(path, k - 1)
             seg == SegmentOf(path, k)
         IN IF /\ before.kind = "message"
               /\ Len(seg) = 1
               /\ seg[1] \in DOMAIN TestMessage[before.v]
              THEN TestMessage[before.v][seg[1]]
              ELSE Invalid

\* C19: when every segment names a field of the message reached so far the
\* value of the last one, scalar or message, is returned; otherwise the
\* first segment that leads nowhere decides: NotAMessage when the segment
\* before it led to a scalar, FieldNotFound naming it when the message
\* reached has no such field.
C19_DescendsBySegment ==
    (call.op = "getNestedField" /\ call.pc = "ret") =>
        LET path == call.fieldPath
            n == SegmentCount(path)
        IN IF Reached(path, n) # Invalid
             THEN call.err = NilErr /\ call.val = Reached(path, n)
           ELSE LET k == Min({j \in 1..n : Reached(path, j) = Invalid}) IN
                /\ call.val = Invalid
                /\ IF Reached(path, k - 1).kind = "scalar"
                     THEN call.err.kind = "NotAMessage"
                     ELSE call.err = FieldNotFound(SegmentOf(path, k))

\* C19 witness: sdk_block.header.height gave the scalar "67890".
C19_Witness ==
    /\ call.op = "getNestedField"
    /\ call.pc = "ret"
    /\ call.fieldPath = <<"sdk_block", ".", "header", ".", "height">>
    /\ call.val = Scalar("67890")
    /\ call.err = NilErr

----------------------------------------------------------------------------
\* The block-results sub-call as a whole

\* C21: a fetch that got as far as the block-results sub-call (the fetch of
\* the results or the write of them) ends with a nil error whatever the
\* sub-call did, so the group records no error for it.
C21_ResultsSubCallSwallowed ==
    [][\A h \in Heights :
          (tpc[h] \in {"results", "writeResults"} /\ tpc'[h] = "exit")
              => terr'[h] = "nil"]_vars

----------------------------------------------------------------------------
\* The scheduler's wait for a slot

\* The started tasks that have not yet run their deferred <-sem.
HoldingSlot == {h \in Heights : tpc[h] \in {"block", "txs", "write", "results",
                                             "writeResults", "exit"}}

\* C22: whenever the scheduler is at the send on sem, either the send can
\* proceed or a started task still holds a slot and will free it when it
\* terminates; the scheduler is never left waiting for a slot nobody holds.
C22_SchedulerNeverStuck ==
    spc \in {"acquire", "blocked"} => (SlotFree \/ HoldingSlot # {})

----------------------------------------------------------------------------
\* The store under the tailer, the driver and the gap repair

\* The gap repair started on a store that holds results rows of some of its
\* blocks.
InitRepairStored ==
    /\ MainIdle
    /\ EnableBlockResults \in BOOLEAN
    /\ blocks \in SUBSET RepairHeights
    /\ txrows = blocks
    /\ results \in SUBSET blocks
    /\ tpc = [h \in RepairHeights |-> "none"]
    /\ terr = [h \in RepairHeights |-> "nil"]
    /\ nstart = [h \in RepairHeights |-> 0]
    /\ rep = [pc |-> "query", ids |-> <<>>, i |-> 0, err |-> NoErr,
              fetched |-> <<>>]
    /\ call = NoCall

InitStore == Init \/ InitRepairStored

\* A run is a run of the tailer or a run of the gap repair.
NextStore ==
    \/ rep = NoRepair /\ Next
    \/ rep # NoRepair /\ NextRepair

SpecStore == InitStore /\ [][NextStore]_vars

\* C23: every results row has its block row; a fetch is at the block-results
\* sub-call of a height only with the block row of that height written, and
\* with no results row of that height yet, so it adds at most one.
C23_ResultsOnlyWithBlock ==
    /\ results \subseteq blocks
    /\ \A h \in DOMAIN tpc :
          tpc[h] \in {"results", "writeResults"} => (h \in blocks /\ h \notin results)

\* C23 witness: the gap repair, on a store with results rows, has filled a
\* missing height with its block row and its results row.
C23_Witness ==
    /\ rep # NoRepair
    /\ rep.pc = "ret"
    /\ rep.fetched # <<>>
    /\ \E h \in Heights : h \in results /\ h # rep.fetched[1]
    /\ rep.fetched[1] \in results
    /\ rep.fetched[1] \in blocks

====
